---- MODULE Spec2Model ----
(***************************************************************************)
(* PDF Interleave (src/src/App.tsx): a React component holding two file    *)
(* slots (A = odd pages, B = even pages), the asynchronous inspection of   *)
(* each selected file, and the asynchronous interleaving merge that        *)
(* produces one downloadable artifact.                                     *)
(*                                                                         *)
(* Every React state cell is a variable.  An event handler runs up to its  *)
(* first await in one step; each continuation after an await is a step of  *)
(* its own, so file selections, load completions and merge steps           *)
(* interleave freely.  A handler reads the component state through the     *)
(* closure of the render in which the event fired: mergePdfs works on the  *)
(* oddFile and evenFile it captured when it was triggered.                 *)
(***************************************************************************)
EXTENDS Integers, Sequences, FiniteSets, TLC

(* ------------------------------ bounds --------------------------------- *)
\* largest page count of a selectable PDF
MaxPages == 3
\* number of file-selection events (both slots together) in one run
MaxSelects == 3
\* number of merge triggers in one run
MaxMerges == 2

(* ------------------------------ inputs --------------------------------- *)
\* File.name of the selectable files; "" is a File without a name
Names == {"", "a.pdf", "b.pdf"}
\* File.size of the selectable files
FileSizes == {1024}
\* Blob.size of a serialized output document
BlobSizes == {2048}

\* A File the user can select.  ok says whether readArrayBuffer followed by
\* PDFDocument.load succeeds on it; pages is what getPageCount() then
\* returns.  A PDF with an empty page tree (pages = 0) is loadable.
FileSet ==
    [name : Names, pages : 0..MaxPages, size : FileSizes, ok : {TRUE}]
    \cup [name : Names, pages : {0}, size : FileSizes, ok : {FALSE}]

\* File | null is a sequence of length at most one; NoFile is null
NoFile == <<>>
\* what event.target.files?.[0] ?? null can be
FileChoice == {NoFile} \cup {<<f>> : f \in FileSet}

\* The files offered to the file inputs when the whole component runs: the
\* event flow depends on a file only through its identity and on whether it
\* loads, so these are the named one-page PDFs and one unloadable file.
UiFiles ==
    {f \in FileSet : \/ f.ok /\ f.name # "" /\ f.pages = 1
                     \/ ~f.ok /\ f.name = "a.pdf"}
UiChoice == {NoFile} \cup {<<f>> : f \in UiFiles}

\* the empty string of downloadUrl; object URLs are 1, 2, ...
NoUrl == 0

EmptyInfo == [name |-> "-", pages |-> 0, size |-> 0]

\* the status texts
StatusSelect == "select two PDFs"
StatusFailA == "failed to load PDF A"
StatusFailB == "failed to load PDF B"
StatusMerging == "merging..."
StatusDone == "done"
StatusMergeFailed == "merge failed, check the PDFs"

(* ------------------------------- state --------------------------------- *)
VARIABLES
    oddFile,      \* useState<File | null>
    evenFile,     \* useState<File | null>
    oddInfo,      \* useState<PdfInfo>
    evenInfo,     \* useState<PdfInfo>
    status,       \* useState(string)
    busy,         \* useState(boolean)
    downloadUrl,  \* useState(string)
    resultInfo,   \* useState<PdfInfo>
    loads,        \* the inspectPdf calls in flight
    merges,       \* the mergePdfs calls in flight
    artifacts,    \* the blobs given an object URL so far; artifacts[u] is URL u
    liveUrls,     \* the object URLs created and not revoked
    nSelect,      \* file selections so far
    nMerge,       \* merge triggers so far
    mounted       \* the component is mounted: its state exists and renders

vars == <<oddFile, evenFile, oddInfo, evenInfo, status, busy, downloadUrl,
          resultInfo, loads, merges, artifacts, liveUrls, nSelect, nMerge,
          mounted>>

slots == <<oddFile, evenFile, oddInfo, evenInfo>>
counters == <<nSelect, nMerge>>

Init ==
    /\ oddFile = NoFile
    /\ evenFile = NoFile
    /\ oddInfo = EmptyInfo
    /\ evenInfo = EmptyInfo
    /\ status = StatusSelect
    /\ busy = FALSE
    /\ downloadUrl = NoUrl
    /\ resultInfo = EmptyInfo
    /\ loads = {}
    /\ merges = {}
    /\ artifacts = <<>>
    /\ liveUrls = {}
    /\ nSelect = 0
    /\ nMerge = 0
    /\ mounted = TRUE

(* ------------------------------ helpers -------------------------------- *)
Max(x, y) == IF x >= y THEN x ELSE y
Min(x, y) == IF x <= y THEN x ELSE y

\* the effect without its cleanup: nothing is revoked
KeepOnChange(url) == liveUrls

\* the effect on [downloadUrl]: when downloadUrl changes, the cleanup of the
\* previous render's effect revokes the URL it closed over
RevokeOnChange(url) ==
    IF url # downloadUrl /\ downloadUrl # NoUrl
    THEN liveUrls \ {downloadUrl}
    ELSE liveUrls

\* canMerge without its busy test
canMergeWhileBusy == oddFile # NoFile /\ evenFile # NoFile

\* the button is enabled iff canMerge
canMerge == oddFile # NoFile /\ evenFile # NoFile /\ ~busy

\* what inspectPdf passes to setInfo
InspectedInfo(file) ==
    [name |-> file.name, pages |-> file.pages, size |-> file.size]

(* --------------------------- file selection ---------------------------- *)
\* handleOddChange without setDownloadUrl("")
handleOddChangeKeepsUrl(choice) ==
    /\ mounted
    /\ nSelect < MaxSelects
    /\ nSelect' = nSelect + 1
    /\ oddFile' = choice
    /\ resultInfo' = EmptyInfo
    /\ IF choice = NoFile
       THEN /\ oddInfo' = EmptyInfo
            /\ status' = StatusSelect
            /\ UNCHANGED loads
       ELSE /\ loads' = loads \cup
                  {[id |-> nSelect + 1, slot |-> "A", file |-> choice[1]]}
            /\ UNCHANGED <<oddInfo, status>>
    /\ UNCHANGED <<evenFile, evenInfo, busy, downloadUrl, liveUrls, merges,
                   artifacts, nMerge, mounted>>

\* handleOddChange up to its await: the slot, the artifact and, for a
\* cleared input, the slot's info and the status
handleOddChange(choice) ==
    /\ mounted
    /\ nSelect < MaxSelects
    /\ nSelect' = nSelect + 1
    /\ oddFile' = choice
    /\ downloadUrl' = NoUrl
    /\ liveUrls' = RevokeOnChange(NoUrl)
    /\ resultInfo' = EmptyInfo
    /\ IF choice = NoFile
       THEN /\ oddInfo' = EmptyInfo
            /\ status' = StatusSelect
            /\ UNCHANGED loads
       ELSE /\ loads' = loads \cup
                  {[id |-> nSelect + 1, slot |-> "A", file |-> choice[1]]}
            /\ UNCHANGED <<oddInfo, status>>
    /\ UNCHANGED <<evenFile, evenInfo, busy, merges, artifacts, nMerge, mounted>>

\* handleOddChange after inspectPdf resolved
OddLoadOk(l) ==
    /\ mounted
    /\ l \in loads
    /\ l.slot = "A"
    /\ l.file.ok
    /\ loads' = loads \ {l}
    /\ oddInfo' = InspectedInfo(l.file)
    /\ status' = StatusSelect
    /\ UNCHANGED <<oddFile, evenFile, evenInfo, busy, downloadUrl, resultInfo,
                   merges, artifacts, liveUrls, counters, mounted>>

\* the catch block of handleOddChange resetting the info of both slots
OddLoadFailResetsBoth(l) ==
    /\ mounted
    /\ l \in loads
    /\ l.slot = "A"
    /\ ~l.file.ok
    /\ loads' = loads \ {l}
    /\ status' = StatusFailA
    /\ oddInfo' = EmptyInfo
    /\ evenInfo' = EmptyInfo
    /\ UNCHANGED <<oddFile, evenFile, busy, downloadUrl, resultInfo,
                   merges, artifacts, liveUrls, counters, mounted>>

\* the catch block of handleOddChange without setOddInfo
OddLoadFailKeepsInfo(l) ==
    /\ mounted
    /\ l \in loads
    /\ l.slot = "A"
    /\ ~l.file.ok
    /\ loads' = loads \ {l}
    /\ status' = StatusFailA
    /\ UNCHANGED <<oddFile, evenFile, oddInfo, evenInfo, busy, downloadUrl,
                   resultInfo, merges, artifacts, liveUrls, counters, mounted>>

\* handleOddChange after inspectPdf rejected: the catch block
OddLoadFail(l) ==
    /\ mounted
    /\ l \in loads
    /\ l.slot = "A"
    /\ ~l.file.ok
    /\ loads' = loads \ {l}
    /\ status' = StatusFailA
    /\ oddInfo' = EmptyInfo
    /\ UNCHANGED <<oddFile, evenFile, evenInfo, busy, downloadUrl, resultInfo,
                   merges, artifacts, liveUrls, counters, mounted>>

handleEvenChange(choice) ==
    /\ mounted
    /\ nSelect < MaxSelects
    /\ nSelect' = nSelect + 1
    /\ evenFile' = choice
    /\ downloadUrl' = NoUrl
    /\ liveUrls' = RevokeOnChange(NoUrl)
    /\ resultInfo' = EmptyInfo
    /\ IF choice = NoFile
       THEN /\ evenInfo' = EmptyInfo
            /\ status' = StatusSelect
            /\ UNCHANGED loads
       ELSE /\ loads' = loads \cup
                  {[id |-> nSelect + 1, slot |-> "B", file |-> choice[1]]}
            /\ UNCHANGED <<evenInfo, status>>
    /\ UNCHANGED <<oddFile, oddInfo, busy, merges, artifacts, nMerge, mounted>>

EvenLoadOk(l) ==
    /\ mounted
    /\ l \in loads
    /\ l.slot = "B"
    /\ l.file.ok
    /\ loads' = loads \ {l}
    /\ evenInfo' = InspectedInfo(l.file)
    /\ status' = StatusSelect
    /\ UNCHANGED <<oddFile, evenFile, oddInfo, busy, downloadUrl, resultInfo,
                   merges, artifacts, liveUrls, counters, mounted>>

EvenLoadFail(l) ==
    /\ mounted
    /\ l \in loads
    /\ l.slot = "B"
    /\ ~l.file.ok
    /\ loads' = loads \ {l}
    /\ status' = StatusFailB
    /\ evenInfo' = EmptyInfo
    /\ UNCHANGED <<oddFile, evenFile, oddInfo, busy, downloadUrl, resultInfo,
                   merges, artifacts, liveUrls, counters, mounted>>

(* ------------------------------- merge --------------------------------- *)
\* a page of the output: page idx of the A-side or B-side document
PageOf(side, idx) == <<side, idx>>
\* the page PDFDocument.save() adds to a document that has none
DefaultPage == <<"blank", 0>>

\* the loop bound with min for max: the loop stops at the shorter document
minPages(oddPages, evenPages) == Min(oddPages, evenPages)

\* the loop bound
maxPages(oddPages, evenPages) == Max(oddPages, evenPages)

\* the page output.copyPages(oddPdf, [i]) yields
OddPage(i) == PageOf("A", i)

\* the second copy taking its page from oddPdf as well
EvenPageFromOdd(i) == PageOf("A", i)

\* the page output.copyPages(evenPdf, [i]) yields
EvenPage(i) == PageOf("B", i)

\* Where the loop stops next when it reaches index i: at the copy of A's
\* page i, at the copy of B's page i when A has no page i, or, the loop
\* being over, at output.save()
LoopHead(i, oddPages, evenPages) ==
    IF i < maxPages(oddPages, evenPages)
    THEN [pc |-> IF i < oddPages THEN "copyOdd" ELSE "copyEven", i |-> i]
    ELSE [pc |-> "save", i |-> i]

\* where the loop stops next after A's side of index i
AfterOdd(i, oddPages, evenPages) ==
    IF i < evenPages
    THEN [pc |-> "copyEven", i |-> i]
    ELSE LoopHead(i + 1, oddPages, evenPages)

\* The await the merge is stopped at can reject: a read or a parse of a
\* file that does not load, and any of PDFDocument.create(), copyPages()
\* and save()
Rejects(m) ==
    \/ m.pc \in {"read", "parse"} /\ ~(m.odd.ok /\ m.even.ok)
    \/ m.pc \in {"create", "copyOdd", "copyEven", "save"}

\* output.save() with its default options (addDefaultPage): a document
\* without pages is given one blank page before it is serialized
SavedPages(out) == IF Len(out) = 0 THEN <<DefaultPage>> ELSE out

\* mergedName without the fallback for an empty name
MergedNameNoFallback(file) == "al-" \o file.name

\* baseName and mergedName
MergedName(file) ==
    "al-" \o (IF file.name # "" THEN file.name ELSE "interleaved.pdf")

\* mergePdfs with an output document kept from the merge before
mergePdfsReusingOutput ==
    /\ mounted
    /\ canMerge
    /\ oddFile # NoFile /\ evenFile # NoFile
    /\ nMerge < MaxMerges
    /\ nMerge' = nMerge + 1
    /\ busy' = TRUE
    /\ status' = StatusMerging
    /\ downloadUrl' = NoUrl
    /\ liveUrls' = RevokeOnChange(NoUrl)
    /\ merges' = merges \cup
           {[id |-> nMerge + 1, odd |-> oddFile[1], even |-> evenFile[1],
             pc |-> "read", i |-> 0,
             out |-> IF artifacts = <<>> THEN <<>>
                     ELSE artifacts[Len(artifacts)].pages]}
    /\ UNCHANGED <<slots, resultInfo, loads, artifacts, nSelect,
                   mounted>>

\* mergePdfs up to its first await; the click reaches it only while the
\* button is enabled
mergePdfs ==
    /\ mounted
    /\ canMerge
    /\ oddFile # NoFile /\ evenFile # NoFile
    /\ nMerge < MaxMerges
    /\ nMerge' = nMerge + 1
    /\ busy' = TRUE
    /\ status' = StatusMerging
    /\ downloadUrl' = NoUrl
    /\ liveUrls' = RevokeOnChange(NoUrl)
    /\ merges' = merges \cup
           {[id |-> nMerge + 1, odd |-> oddFile[1], even |-> evenFile[1],
             pc |-> "read", i |-> 0, out |-> <<>>]}
    /\ UNCHANGED <<slots, resultInfo, loads, artifacts, nSelect,
                   mounted>>

\* both reads resolved
MergeRead(m) ==
    /\ m \in merges
    /\ m.pc = "read"
    /\ merges' = (merges \ {m}) \cup {[m EXCEPT !.pc = "parse"]}
    /\ UNCHANGED <<slots, status, busy, downloadUrl, resultInfo, loads,
                   artifacts, liveUrls, counters, mounted>>

\* both files parsed
MergeParsed(m) ==
    /\ m \in merges
    /\ m.pc = "parse"
    /\ m.odd.ok /\ m.even.ok
    /\ merges' = (merges \ {m}) \cup {[m EXCEPT !.pc = "create"]}
    /\ UNCHANGED <<slots, status, busy, downloadUrl, resultInfo, loads,
                   artifacts, liveUrls, counters, mounted>>

\* the output document is created; the loop runs to its first await
MergeCreated(m) ==
    /\ m \in merges
    /\ m.pc = "create"
    /\ LET next == LoopHead(0, m.odd.pages, m.even.pages)
       IN  merges' = (merges \ {m}) \cup
               {[m EXCEPT !.pc = next.pc, !.i = next.i]}
    /\ UNCHANGED <<slots, status, busy, downloadUrl, resultInfo, loads,
                   artifacts, liveUrls, counters, mounted>>

\* A's page i is copied and added; the loop runs to its next await
MergeCopiedOdd(m) ==
    /\ m \in merges
    /\ m.pc = "copyOdd"
    /\ LET next == AfterOdd(m.i, m.odd.pages, m.even.pages)
       IN  merges' = (merges \ {m}) \cup
               {[m EXCEPT !.out = Append(m.out, OddPage(m.i)),
                          !.pc = next.pc, !.i = next.i]}
    /\ UNCHANGED <<slots, status, busy, downloadUrl, resultInfo, loads,
                   artifacts, liveUrls, counters, mounted>>

\* B's page i is copied and added; the loop runs to its next await
MergeCopiedEven(m) ==
    /\ m \in merges
    /\ m.pc = "copyEven"
    /\ LET next == LoopHead(m.i + 1, m.odd.pages, m.even.pages)
       IN  merges' = (merges \ {m}) \cup
               {[m EXCEPT !.out = Append(m.out, EvenPage(m.i)),
                          !.pc = next.pc, !.i = next.i]}
    /\ UNCHANGED <<slots, status, busy, downloadUrl, resultInfo, loads,
                   artifacts, liveUrls, counters, mounted>>

\* save() resolved: make the blob and its URL, publish the result
MergeDone(m) ==
    /\ mounted
    /\ m \in merges
    /\ m.pc = "save"
    /\ \E blobSize \in BlobSizes :
         LET pages == SavedPages(m.out)
             url == Len(artifacts) + 1
             info == [pages |-> Len(pages), size |-> blobSize,
                      name |-> MergedName(m.odd)]
         IN  /\ artifacts' = Append(artifacts,
                     [odd |-> m.odd, even |-> m.even, pages |-> pages,
                      info |-> info])
             /\ downloadUrl' = url
             /\ liveUrls' = RevokeOnChange(url) \cup {url}
             /\ resultInfo' = info
    /\ status' = StatusDone
    /\ busy' = FALSE
    /\ merges' = merges \ {m}
    /\ UNCHANGED <<slots, loads, counters, mounted>>

\* catch without finally: busy stays set
MergeFailNoFinally(m) ==
    /\ mounted
    /\ m \in merges
    /\ Rejects(m)
    /\ status' = StatusMergeFailed
    /\ merges' = merges \ {m}
    /\ UNCHANGED <<slots, busy, downloadUrl, resultInfo, loads, artifacts,
                   liveUrls, counters, mounted>>

\* catch that also clears slot A
MergeFailClearsSlot(m) ==
    /\ mounted
    /\ m \in merges
    /\ Rejects(m)
    /\ status' = StatusMergeFailed
    /\ busy' = FALSE
    /\ merges' = merges \ {m}
    /\ oddFile' = NoFile
    /\ oddInfo' = EmptyInfo
    /\ UNCHANGED <<evenFile, evenInfo, downloadUrl, resultInfo, loads,
                   artifacts, liveUrls, counters, mounted>>

\* the await the merge is stopped at rejected: catch and finally
MergeFail(m) ==
    /\ mounted
    /\ m \in merges
    /\ Rejects(m)
    /\ status' = StatusMergeFailed
    /\ busy' = FALSE
    /\ merges' = merges \ {m}
    /\ UNCHANGED <<slots, downloadUrl, resultInfo, loads, artifacts, liveUrls,
                   counters, mounted>>

(* ------------------------------ teardown ------------------------------- *)
\* The component unmounts: the cleanup of the effect on [downloadUrl] revokes
\* the URL of the last render.  The inputs and the button are gone, and the
\* set-state calls of the continuations still to come have no effect.  The
\* inspections in flight do nothing else, so they are dropped here; the
\* merge in flight runs on, since it still creates an object URL.
Unmount ==
    /\ mounted
    /\ mounted' = FALSE
    /\ liveUrls' = liveUrls \ {downloadUrl}
    /\ loads' = {}
    /\ UNCHANGED <<slots, status, busy, downloadUrl, resultInfo, merges,
                   artifacts, counters>>

\* a merge completes after the teardown: the blob still gets its object URL
MergeDoneUnmounted(m) ==
    /\ ~mounted
    /\ m \in merges
    /\ m.pc = "save"
    /\ \E blobSize \in BlobSizes :
         LET pages == SavedPages(m.out)
             url == Len(artifacts) + 1
             info == [pages |-> Len(pages), size |-> blobSize,
                      name |-> MergedName(m.odd)]
         IN  /\ artifacts' = Append(artifacts,
                     [odd |-> m.odd, even |-> m.even, pages |-> pages,
                      info |-> info])
             /\ liveUrls' = liveUrls \cup {url}
    /\ merges' = merges \ {m}
    /\ UNCHANGED <<slots, status, busy, downloadUrl, resultInfo, loads,
                   counters, mounted>>

\* a merge fails after the teardown
MergeFailUnmounted(m) ==
    /\ ~mounted
    /\ m \in merges
    /\ Rejects(m)
    /\ merges' = merges \ {m}
    /\ UNCHANGED <<slots, status, busy, downloadUrl, resultInfo, loads,
                   artifacts, liveUrls, counters, mounted>>

(* ---------------------------- specification ---------------------------- *)
Next ==
    \/ \E choice \in UiChoice : handleOddChange(choice)
    \/ \E choice \in UiChoice : handleEvenChange(choice)
    \/ \E l \in loads : OddLoadOk(l)
    \/ \E l \in loads : OddLoadFail(l)
    \/ \E l \in loads : EvenLoadOk(l)
    \/ \E l \in loads : EvenLoadFail(l)
    \/ mergePdfs
    \/ \E m \in merges : MergeRead(m)
    \/ \E m \in merges : MergeParsed(m)
    \/ \E m \in merges : MergeCreated(m)
    \/ \E m \in merges : MergeCopiedOdd(m)
    \/ \E m \in merges : MergeCopiedEven(m)
    \/ \E m \in merges : MergeDone(m)
    \/ \E m \in merges : MergeFail(m)
    \/ Unmount
    \/ \E m \in merges : MergeDoneUnmounted(m)
    \/ \E m \in merges : MergeFailUnmounted(m)

Spec == Init /\ [][Next]_vars

\* The merge on its own, over every pair of files: both slots hold a file
\* whose inspection has settled (its info when it loaded, the empty info and
\* the slot's failure status when it did not), and only merges run.
SettledInfo(file) == IF file.ok THEN InspectedInfo(file) ELSE EmptyInfo

InitLoaded ==
    /\ oddFile \in FileChoice \ {NoFile}
    /\ evenFile \in FileChoice \ {NoFile}
    /\ oddInfo = SettledInfo(oddFile[1])
    /\ evenInfo = SettledInfo(evenFile[1])
    /\ status \in {IF oddFile[1].ok THEN StatusSelect ELSE StatusFailA,
                   IF evenFile[1].ok THEN StatusSelect ELSE StatusFailB}
    /\ busy = FALSE
    /\ downloadUrl = NoUrl
    /\ resultInfo = EmptyInfo
    /\ loads = {}
    /\ merges = {}
    /\ artifacts = <<>>
    /\ liveUrls = {}
    /\ nSelect = 2
    /\ nMerge = 0
    /\ mounted = TRUE

\* The component with both slots settled on files of the file inputs, and
\* every merge step eventually taken: each read, parse, page copy and save
\* resolves or rejects.
InitSettled ==
    /\ InitLoaded
    /\ oddFile \in UiChoice
    /\ evenFile \in UiChoice

MergeStep ==
    \E m \in merges :
        \/ MergeRead(m)
        \/ MergeParsed(m)
        \/ MergeCreated(m)
        \/ MergeCopiedOdd(m)
        \/ MergeCopiedEven(m)
        \/ MergeDone(m)
        \/ MergeFail(m)
        \/ MergeDoneUnmounted(m)
        \/ MergeFailUnmounted(m)

FairSpec == InitSettled /\ [][Next]_vars /\ WF_vars(MergeStep)

NextMerge ==
    \/ mergePdfs
    \/ \E m \in merges : MergeRead(m)
    \/ \E m \in merges : MergeParsed(m)
    \/ \E m \in merges : MergeCreated(m)
    \/ \E m \in merges : MergeCopiedOdd(m)
    \/ \E m \in merges : MergeCopiedEven(m)
    \/ \E m \in merges : MergeDone(m)
    \/ \E m \in merges : MergeFail(m)

SpecMerge == InitLoaded /\ [][NextMerge]_vars

(* ------------------------- the interleaving ---------------------------- *)
\* the successful merges so far
Merged == {artifacts[u] : u \in DOMAIN artifacts}

\* pages 0 .. n-1 of one side, in order
SidePages(side, n) == [j \in 1..n |-> PageOf(side, j - 1)]

\* output pages 2k and 2k+1 (0-based) are A's page k and B's page k, for
\* every k below the shorter page count
InterleavedPrefix(r) ==
    \A k \in 0..(Min(r.odd.pages, r.even.pages) - 1) :
        /\ r.pages[2 * k + 1] = PageOf("A", k)
        /\ r.pages[2 * k + 2] = PageOf("B", k)

\* how often a page occurs in an output
Occurrences(p, page) == Cardinality({j \in DOMAIN p : p[j] = page})

\* C1: every successful merge of A (a pages) and B (b pages) outputs exactly
\* a + b pages, and resultInfo.pages is a + b.
C1_PageCountIsSum ==
    \A r \in Merged :
        /\ Len(r.pages) = r.odd.pages + r.even.pages
        /\ r.info.pages = r.odd.pages + r.even.pages

\* C2: in every successful merge, for each k below min(a, b), output page 2k
\* is A's page k and output page 2k+1 is B's page k: A's page comes first.
C2_Alternation == \A r \in Merged : InterleavedPrefix(r)

C2_Witness ==
    \E r \in Merged : r.odd.pages >= 2 /\ r.even.pages >= 2

\* C3: unequal page counts do not truncate.  After the interleaved prefix the
\* output holds the longer side's remaining pages in order, at positions
\* 2*min .. a+b-1, and every page of both sources occurs exactly once.
C3_NoTruncation ==
    \A r \in Merged :
        LET a == r.odd.pages
            b == r.even.pages
        IN  /\ InterleavedPrefix(r)
            /\ a > b =>
                  /\ Len(r.pages) = a + b
                  /\ \A i \in b..(a - 1) : r.pages[b + i + 1] = PageOf("A", i)
            /\ b > a =>
                  /\ Len(r.pages) = a + b
                  /\ \A i \in a..(b - 1) : r.pages[a + i + 1] = PageOf("B", i)
            /\ \A i \in 0..(a - 1) : Occurrences(r.pages, PageOf("A", i)) = 1
            /\ \A i \in 0..(b - 1) : Occurrences(r.pages, PageOf("B", i)) = 1

\* a merge whose A side is longer by two pages or more, after a shared prefix
C3_Witness ==
    \E r \in Merged : r.odd.pages >= r.even.pages + 2 /\ r.even.pages >= 1

\* C4: when one source has no pages the output is a page-for-page copy of
\* the other source; when both have none, a merge that succeeds outputs a
\* document without pages.
C4_ZeroPagesIsPureCopy ==
    \A r \in Merged :
        /\ r.even.pages = 0 => r.pages = SidePages("A", r.odd.pages)
        /\ r.odd.pages = 0 => r.pages = SidePages("B", r.even.pages)

\* C5: the suggested name of every successful merge is "al-" followed by the
\* name of the A file the merge was triggered with, or "al-interleaved.pdf"
\* when that name is empty; B's name plays no part.
C5_SuggestedName ==
    \A r \in Merged :
        r.info.name = (IF r.odd.name = "" THEN "al-interleaved.pdf"
                       ELSE "al-" \o r.odd.name)

\* a merge of a nameless A file with a named B file
C5_Witness ==
    \E r \in Merged : r.odd.name = "" /\ r.even.name = "b.pdf"

(* --------------------------- the event flow ---------------------------- *)
\* the slot's most recent load failed: it holds a file that does not load
\* and no inspection of the slot is in flight any more
LoadFailed(slot, file) ==
    /\ file # NoFile
    /\ ~file[1].ok
    /\ \A l \in loads : l.slot # slot

\* a slot is empty or its most recent load failed
NotReady ==
    \/ oddFile = NoFile
    \/ evenFile = NoFile
    \/ LoadFailed("A", oddFile)
    \/ LoadFailed("B", evenFile)

\* C6: no merge starts while a slot is empty or holds a file whose most
\* recent load failed.
C6_NotReadyRejected == [][NotReady => nMerge' = nMerge]_vars

\* C7: at most one merge is in flight, and no merge starts while one is.
C7_OneMergeAtATime ==
    [][/\ merges # {} => nMerge' = nMerge
       /\ Cardinality(merges') <= 1]_vars

\* a merge is in flight while both slots hold a file, and it is not the
\* first merge of the run: the earlier one completed and let it start
C7_Witness ==
    /\ merges # {}
    /\ busy
    /\ oddFile # NoFile /\ evenFile # NoFile
    /\ nMerge >= 2

\* C8: an exposed artifact was merged from the files the slots hold now.
C8_ArtifactMatchesSlots ==
    downloadUrl # NoUrl =>
        /\ oddFile = <<artifacts[downloadUrl].odd>>
        /\ evenFile = <<artifacts[downloadUrl].even>>

\* C9: after a failed merge neither a download URL nor result metadata is
\* exposed.
C9_FailedMergeExposesNothing ==
    status = StatusMergeFailed =>
        downloadUrl = NoUrl /\ resultInfo = EmptyInfo

\* C10: when a slot's load failure has been applied, neither a download URL
\* nor result metadata of an earlier merge is exposed.
C10_FailedLoadExposesNothing ==
    status \in {StatusFailA, StatusFailB} =>
        downloadUrl = NoUrl /\ resultInfo = EmptyInfo

(* ------------------------- slots and resources ------------------------- *)
\* the inspections in flight for one slot
SlotLoads(slot) == {l \in loads : l.slot = slot}

\* C11: a step of slot A (its file changes, or one of its inspections starts
\* or settles) leaves slot B's file and info alone, and the other way round.
C11_SlotsIndependent ==
    [][/\ (oddFile' # oddFile \/ SlotLoads("A")' # SlotLoads("A"))
            => UNCHANGED <<evenFile, evenInfo>>
       /\ (evenFile' # evenFile \/ SlotLoads("B")' # SlotLoads("B"))
            => UNCHANGED <<oddFile, oddInfo>>]_vars

\* B's load failed, A's load succeeded after it, and B is still failed
C11_Witness ==
    /\ loads = {}
    /\ oddFile # NoFile /\ oddInfo = InspectedInfo(oddFile[1])
    /\ evenFile # NoFile /\ ~evenFile[1].ok /\ evenInfo = EmptyInfo
    /\ status = StatusSelect

\* C12: at most one object URL is live; while the component is mounted the
\* only live URL is the current one; and in the step in which the current
\* URL stops being current (replaced, cleared or torn down) it is revoked.
C12_UrlReleased ==
    [][/\ Cardinality(liveUrls') <= 1
       /\ mounted' => liveUrls' \subseteq {downloadUrl'}
       /\ (downloadUrl # NoUrl
             /\ (downloadUrl' # downloadUrl \/ (mounted /\ ~mounted')))
            => downloadUrl \notin liveUrls']_vars

\* the second artifact of a run is the live one
C12_Witness ==
    /\ Len(artifacts) >= 2
    /\ downloadUrl = 2
    /\ liveUrls = {2}

\* C13: when the inspection of an unloadable file settles on the mounted
\* component, the slot's info is the empty info and the status is that
\* slot's failure message.
C13_LoadFailureResets ==
    [][\A l \in loads \ loads' :
          (mounted' /\ ~l.file.ok) =>
              /\ l.slot = "A" => oddInfo' = EmptyInfo /\ status' = StatusFailA
              /\ l.slot = "B" => evenInfo' = EmptyInfo /\ status' = StatusFailB]_vars

\* slot B's failure applied while slot A is loaded
C13_Witness ==
    /\ status = StatusFailB
    /\ evenFile # NoFile /\ ~evenFile[1].ok /\ evenInfo = EmptyInfo
    /\ oddInfo # EmptyInfo
    /\ SlotLoads("B") = {}

\* C14: every merge in flight ends, and when it has ended on a mounted
\* component busy is false.
C14_MergeEnds ==
    (merges # {}) ~> (merges = {} /\ (mounted => ~busy))

\* a merge completed although slot A's file was changed while it ran
C14_Witness ==
    /\ merges = {}
    /\ ~busy
    /\ downloadUrl # NoUrl
    /\ oddFile # <<artifacts[downloadUrl].odd>>

\* C15: two successful merges of the same two files have the same page
\* count and the same page at every position.
C15_Deterministic ==
    \A r1, r2 \in Merged :
        (r1.odd = r2.odd /\ r1.even = r2.even) =>
            /\ r1.pages = r2.pages
            /\ r1.info.pages = r2.info.pages

\* the same two files merged twice, with pages on both sides
C15_Witness ==
    /\ Len(artifacts) >= 2
    /\ artifacts[1].odd = artifacts[2].odd
    /\ artifacts[1].even = artifacts[2].even
    /\ artifacts[1].odd.pages >= 2
    /\ artifacts[1].even.pages >= 1

\* C16: no step of a merge (its trigger, its steps, its success, its
\* failure) changes a slot's file or info.
C16_MergeKeepsSlots == [][merges' # merges => UNCHANGED slots]_vars

\* a merge has failed and both slots still hold their file
C16_Witness ==
    /\ status = StatusMergeFailed
    /\ oddFile # NoFile
    /\ evenFile # NoFile /\ evenInfo = InspectedInfo(evenFile[1])
    /\ canMerge

\* C17: once no inspection of a slot is in flight, the slot's info is that
\* of the file the slot holds, or the empty info if that file does not load.
C17_InfoOfSelectedFile ==
    mounted =>
        /\ (oddFile # NoFile /\ SlotLoads("A") = {})
              => oddInfo = SettledInfo(oddFile[1])
        /\ (evenFile # NoFile /\ SlotLoads("B") = {})
              => evenInfo = SettledInfo(evenFile[1])

\* C18: while a download URL is exposed, resultInfo is the metadata written
\* by the merge completion that created that URL.
C18_UrlAndInfoTogether ==
    downloadUrl # NoUrl => resultInfo = artifacts[downloadUrl].info

\* the second artifact is exposed and its metadata differs from the first's
C18_Witness ==
    /\ downloadUrl = 2
    /\ artifacts[1].info # artifacts[2].info

\* a step in which only inspections settle
OnlyLoadsSettle ==
    /\ nSelect' = nSelect
    /\ nMerge' = nMerge
    /\ merges' = merges
    /\ mounted /\ mounted'

\* C19: while a slot's most recent load has failed, its failure message
\* stays in the status when an inspection of the other slot settles.
C19_FailureStaysReported ==
    [][/\ (OnlyLoadsSettle /\ LoadFailed("A", oddFile) /\ status = StatusFailA)
            => status' = StatusFailA
       /\ (OnlyLoadsSettle /\ LoadFailed("B", evenFile) /\ status = StatusFailB)
            => status' = StatusFailB]_vars
====
